---- MODULE Spec2Model ----
(***************************************************************************)
(* Model of the ZenlessZoneZero music visualizer's audio-to-spectrum       *)
(* pipeline: the double-buffered SharedPipe (src/src/dsp/spectrum.rs), the *)
(* capture loop and run_fft of main (src/src/main.rs) and run_fft with its *)
(* band caches of src/src/dsp/fft.rs.                                      *)
(*                                                                         *)
(* Five specifications share the state:                                    *)
(*   Spec        - the SharedPipe driven through its public API: one call  *)
(*                 of write in flight at a time, one thread polling with   *)
(*                 read, read_if_new, has_new_data and read_with_tracking  *)
(*                 and one calling read.  write may be handed a slice whose*)
(*                 length is not BANDS, which makes copy_from_slice panic  *)
(*                 with the slot's mutex held (the mutex is poisoned).     *)
(*   SpecCapture - the program: main spawns the capture thread and runs    *)
(*                 the renderer, whose only channel call is read.          *)
(*   SpecBands   - two threads racing through the prologue of run_fft of   *)
(*                 dsp/fft.rs, which fills the band caches once.           *)
(*   SpecAnalyzer- one call of run_fft (either variant) on a sample window,*)
(*                 in fixed-point arithmetic, ending in its call of write. *)
(*   SpecRun     - one thread calling run_fft of dsp/fft.rs, which calls   *)
(*                 write with the guards of both caches held, beside the   *)
(*                 threads calling the read operations, fairly scheduled.  *)
(*                                                                         *)
(* A spectrum is a sequence of BANDS values.  The k-th call of write is    *)
(* handed the spectrum whose every element is k, so that the origin of     *)
(* each element a reader copies out is visible; 0 is the 0.0 of new().     *)
(***************************************************************************)
EXTENDS Integers, Sequences, FiniteSets, TLC

\* length of a spectrum: 64 in the program (src/src/dsp/spectrum.rs:4), kept
\* small here so that copy_from_slice and clone run one element per step
BANDS == 2
\* length of the sample window and of the transform: 2048 in main.rs, 4096 in
\* dsp/fft.rs, kept at the smallest size that holds one block of 8 samples
FFT_SIZE == 8
\* number of write calls made under Spec
MaxWrites == 3
\* number of packets the Audio Source delivers under SpecCapture
MaxPackets == 3

\* the threads calling the read operations (0 names the writer): a poller that
\* uses all four of them, and the renderer (the main thread inside run), whose
\* only channel call is read (src/src/viz/viz.rs:244)
Poller == 1
Renderer == 2
Readers == {Poller, Renderer}
Slots == {0, 1}

VARIABLES
    \* ---- SharedPipe
    slots,      \* data: [Mutex<Vec<f32>>; 2], the vectors
    lock,       \* per slot, the set of threads holding its mutex (0 = the writer)
    poisoned,   \* per slot, the mutex's poison flag
    current,    \* current: AtomicUsize
    version,    \* version: AtomicUsize
    \* ---- the thread calling write
    pc,         \* its position
    wdata,      \* new_data of the call in flight
    widx,       \* write_idx of the call in flight
    wi,         \* number of elements copy_from_slice has copied
    wargs,      \* history: the arguments of the write calls made so far
    nRet,       \* history: number of write calls that returned from the Ok branch
    nFail,      \* history: number of write calls that found the lock poisoned
    \* ---- the threads calling the read operations
    rpc,        \* position
    rop,        \* the public operation in progress
    ridx,       \* idx of read
    rbuf,       \* the vector being built / returned by read
    rinLocal,   \* THREAD_LOCAL_VERSION of read_if_new
    hndLocal,   \* THREAD_LOCAL_VERSION of has_new_data (a different static)
    rflag,      \* the bool has_new_data returns
    trackVer,   \* the version the last read_with_tracking returned
    lastSome,   \* history: tag of the last Some(..) of read_if_new (-1: none yet)
    rstart,     \* history: number of writes that had returned when read was called
    lastRead,   \* history: tag of the vector the renderer's previous read()
                \*   returned (0: none yet, or the zeros of new())
    \* ---- main and the capture thread
    mainpc,     \* main: "spawn" -> "run" ("exited": the process is gone)
    captureOk,  \* outcome of audio::capture::capture(): "pending", "ok", "failed"
    avail,      \* packets waiting in the Audio Source
    arrived,    \* packets delivered so far
    held,       \* the packet obtained by GetBuffer and not yet released:
                \*   "none", or its kind "silent", "audio", "nan"
    iter,       \* history of the current loop iteration
    num_frames, \* num_frames of the packet obtained by GetBuffer
    samples,    \* samples: the sample window handed to run_fft
    \* ---- run_fft and the functions it calls
    variant,    \* which run_fft is running: "main" (main.rs) or "dsp" (dsp/fft.rs)
    fft_input,  \* fft_input: the complex buffer, a sequence of [re, im]
    bands,      \* bands: the band energies
    reference,  \* reference_value of improved_normalize_spectrum
    windowed_samples, \* windowed_samples of run_fft in dsp/fft.rs
    di,         \* the index of the loop in progress
    \* ---- the band index cache of dsp/fft.rs and the threads calling run_fft
    rawEdges,   \* the bin index the conversion yields for each band edge
    cache,      \* BAND_INDEX_CACHE: the vector
    gains,      \* BAND_GAINS_CACHE: the vector
    cacheLock,  \* holder of BAND_INDEX_CACHE's mutex (0: free)
    gainsLock,  \* holder of BAND_GAINS_CACHE's mutex (0: free)
    cachePoison,\* poison flag of the two mutexes, <<index, gains>>
    tpc,        \* per thread, its position in run_fft
    calls,      \* per thread, the number of run_fft calls it has made
    ci,         \* i of the loop in init_band_indices_cache
    firstTable  \* history: the table the first initialization pushed

pipeVars == <<slots, lock, poisoned, current, version>>
writerVars == <<pc, wdata, widx, wi, wargs, nRet, nFail>>
readerVars == <<rpc, rop, ridx, rbuf, rinLocal, hndLocal, rflag, trackVer, lastSome, rstart, lastRead>>
captureVars == <<mainpc, captureOk, avail, arrived, held, iter>>
windowVars == <<num_frames, samples>>
analyzerVars == <<variant, fft_input, windowed_samples, bands, reference, di>>
bandVars == <<rawEdges, cache, gains, cacheLock, gainsLock, cachePoison, tpc, calls, ci, firstTable>>
vars == <<pipeVars, writerVars, readerVars, captureVars, windowVars, analyzerVars, bandVars>>

----------------------------------------------------------------------------
\* Spectra

\* vec![x; BANDS]
Spectrum(x) == [i \in 1..BANDS |-> x]
Zeros == Spectrum(0)
\* a slice one element short of BANDS
ShortSlice(x) == [i \in 1..(BANDS - 1) |-> x]

\* the write call a spectrum was handed to (every element carries it)
Tag(v) == v[1]

\* history of one iteration of the capture loop: an acquisition error occurred,
\* GetBuffer succeeded, write was called, number of ReleaseBuffer calls, number
\* of packets that were waiting when GetNextPacketSize was called
IterIdle == [err |-> FALSE, got |-> FALSE, wrote |-> FALSE, released |-> 0, seen |-> 0]

----------------------------------------------------------------------------
\* SharedPipe::new and the thread-locals

InitPipe ==
    /\ slots = [s \in Slots |-> Zeros]
    /\ lock = [s \in Slots |-> {}]
    /\ poisoned = [s \in Slots |-> FALSE]
    /\ current = 0
    /\ version = 0

InitThreads ==
    /\ wdata = <<>>
    /\ widx = 0
    /\ wi = 0
    /\ wargs = <<>>
    /\ nRet = 0
    /\ nFail = 0
    /\ rpc = [r \in Readers |-> "idle"]
    /\ rop = [r \in Readers |-> "none"]
    /\ ridx = [r \in Readers |-> 0]
    /\ rbuf = [r \in Readers |-> <<>>]
    /\ rinLocal = [r \in Readers |-> 0]
    /\ hndLocal = [r \in Readers |-> 0]
    /\ rflag = [r \in Readers |-> FALSE]
    /\ trackVer = [r \in Readers |-> 0]
    /\ lastSome = [r \in Readers |-> -1]
    /\ rstart = [r \in Readers |-> 0]
    /\ lastRead = 0
    /\ avail = 0
    /\ arrived = 0
    /\ held = "none"
    /\ iter = IterIdle
    /\ num_frames = 0

\* the threads calling run_fft of dsp/fft.rs (0 means: no holder)
FftThreads == {1, 2}

\* Lazy::new(|| Mutex::new(Vec::new())), no thread inside run_fft
BandCacheIdle ==
    /\ cache = <<>>
    /\ gains = <<>>
    /\ cacheLock = 0
    /\ gainsLock = 0
    /\ cachePoison = <<FALSE, FALSE>>
    /\ tpc = [t \in FftThreads |-> "idle"]
    /\ calls = [t \in FftThreads |-> 0]
    /\ firstTable = <<>>
    /\ ci = 0

\* no analysis in progress
AnalyzerIdle ==
    /\ variant = "none"
    /\ fft_input = <<>>
    /\ windowed_samples = <<>>
    /\ bands = <<>>
    /\ reference = 0
    /\ di = 0

\* neither run_fft of dsp/fft.rs nor an analysis is running
NoAnalysis ==
    /\ AnalyzerIdle
    /\ BandCacheIdle
    /\ rawEdges = <<>>

----------------------------------------------------------------------------
\* SharedPipe::write

\* the mutex of slot s can be taken (lock() blocks while it is held)
LockFree(s) == lock[s] = {}

\* write_idx = (read_idx + 1) % 2
WriteIdxSame(read_idx) == read_idx
WriteIdx(read_idx) == (read_idx + 1) % 2

\* no step of write touches a reader's locals or the capture loop's state
WriteStepped == UNCHANGED <<readerVars, captureVars, windowVars, analyzerVars, bandVars>>

\* let read_idx = current.load(); let write_idx = (read_idx + 1) % 2;
WriteLoad ==
    /\ pc = "w_load"
    /\ widx' = WriteIdx(current)
    /\ pc' = "w_lock"
    /\ WriteStepped
    /\ UNCHANGED <<pipeVars, wdata, wi, wargs, nRet, nFail>>

\* the mutex of slot s once the writer has locked it
WriterAcquireNothing(s) == lock
WriterAcquire(s) == [lock EXCEPT ![s] = {0}]

\* self.data[write_idx].lock() is Ok(guard)
WriteLockOk ==
    /\ pc = "w_lock"
    /\ LockFree(widx)
    /\ ~poisoned[widx]
    /\ lock' = WriterAcquire(widx)
    /\ pc' = "w_check"
    /\ WriteStepped
    /\ UNCHANGED <<slots, poisoned, current, version, wdata, widx, wi, wargs, nRet, nFail>>

\* what a write that finds its mutex poisoned does to version
FailedWriteVersionBump(v) == v + 1
FailedWriteVersion(v) == v

\* self.data[write_idx].lock() is Err(PoisonError): the if-let body is skipped,
\* the guard inside the error is dropped, write returns to ret
WriteLockErr(ret) ==
    /\ pc = "w_lock"
    /\ LockFree(widx)
    /\ poisoned[widx]
    /\ version' = FailedWriteVersion(version)
    /\ nFail' = nFail + 1
    /\ pc' = ret
    /\ wdata' = <<>>
    /\ WriteStepped
    /\ UNCHANGED <<slots, lock, poisoned, current, widx, wi, wargs, nRet>>

\* guard.copy_from_slice(new_data): the lengths are compared first
WriteCheckOk ==
    /\ pc = "w_check"
    /\ Len(wdata) = Len(slots[widx])
    /\ wi' = 0
    /\ pc' = "w_copy"
    /\ WriteStepped
    /\ UNCHANGED <<pipeVars, wdata, widx, wargs, nRet, nFail>>

\* copy_from_slice panics on a length mismatch: the thread unwinds, the guard
\* is dropped while panicking, which poisons the mutex; the thread is gone
WritePanic ==
    /\ pc = "w_check"
    /\ Len(wdata) # Len(slots[widx])
    /\ lock' = [lock EXCEPT ![widx] = {}]
    /\ poisoned' = [poisoned EXCEPT ![widx] = TRUE]
    /\ pc' = "panicked"
    /\ wdata' = <<>>
    /\ WriteStepped
    /\ UNCHANGED <<slots, current, version, widx, wi, wargs, nRet, nFail>>

\* copy_from_slice, one element per step
WriteCopy ==
    /\ pc = "w_copy"
    /\ wi < Len(wdata)
    /\ slots' = [slots EXCEPT ![widx][wi + 1] = wdata[wi + 1]]
    /\ wi' = wi + 1
    /\ pc' = IF wi + 1 = Len(wdata) THEN "w_store" ELSE "w_copy"
    /\ WriteStepped
    /\ UNCHANGED <<lock, poisoned, current, version, wdata, widx, wargs, nRet, nFail>>

\* the index write stores into current
StoredIdxRead(write_idx) == 1 - write_idx
StoredIdx(write_idx) == write_idx

\* self.current.store(write_idx)
WriteStore ==
    /\ pc = "w_store"
    /\ current' = StoredIdx(widx)
    /\ pc' = "w_ver"
    /\ WriteStepped
    /\ UNCHANGED <<slots, lock, poisoned, version, wdata, widx, wi, wargs, nRet, nFail>>

\* self.version.fetch_add(1)
WriteVersion ==
    /\ pc = "w_ver"
    /\ version' = version + 1
    /\ pc' = "w_unlock"
    /\ WriteStepped
    /\ UNCHANGED <<slots, lock, poisoned, current, wdata, widx, wi, wargs, nRet, nFail>>

\* the guard is dropped at the end of the if-let body; write returns to ret
WriteUnlock(ret) ==
    /\ pc = "w_unlock"
    /\ lock' = [lock EXCEPT ![widx] = {}]
    /\ nRet' = nRet + 1
    /\ pc' = ret
    /\ wdata' = <<>>
    /\ WriteStepped
    /\ UNCHANGED <<slots, poisoned, current, version, widx, wi, wargs, nFail>>

\* the positions inside write
WritePcs == {"w_load", "w_lock", "w_check", "w_copy", "w_store", "w_ver", "w_unlock"}

\* the steps of write that neither return nor panic
WriteInner ==
    \/ WriteLoad
    \/ WriteLockOk
    \/ WriteCheckOk
    \/ WriteCopy
    \/ WriteStore
    \/ WriteVersion

----------------------------------------------------------------------------
\* SharedPipe::read, read_if_new, has_new_data, read_with_tracking

\* no step of a reader touches the writer's locals or the capture loop's state
ReadStepped == UNCHANGED <<writerVars, captureVars, windowVars, analyzerVars, bandVars>>

\* read(), called directly (the history variables left aside)
CallReadCore(r) ==
    /\ mainpc = "run"
    /\ rpc[r] = "idle"
    /\ rpc' = [rpc EXCEPT ![r] = "r_load"]
    /\ rop' = [rop EXCEPT ![r] = "read"]
    /\ ReadStepped
    /\ UNCHANGED <<pipeVars, ridx, rbuf, rinLocal, hndLocal, rflag, trackVer>>

\* CallRead, with the history it leaves
CallRead(r) ==
    /\ CallReadCore(r)
    /\ rstart' = [rstart EXCEPT ![r] = nRet]
    /\ UNCHANGED <<lastSome, lastRead>>

\* read_with_tracking(): let data = self.read(); (the history variables left aside)
CallReadWithTrackingCore(r) ==
    /\ mainpc = "run"
    /\ rpc[r] = "idle"
    /\ rpc' = [rpc EXCEPT ![r] = "r_load"]
    /\ rop' = [rop EXCEPT ![r] = "rwt"]
    /\ ReadStepped
    /\ UNCHANGED <<pipeVars, ridx, rbuf, rinLocal, hndLocal, rflag, trackVer>>

\* CallReadWithTracking, with the history it leaves
CallReadWithTracking(r) ==
    /\ CallReadWithTrackingCore(r)
    /\ rstart' = [rstart EXCEPT ![r] = nRet]
    /\ UNCHANGED <<lastSome, lastRead>>

\* read_if_new(): current_version = version.load(); last_version = local.load();
\* if current_version > last_version { local.store(current_version); Some(self.read()) }
\* (the history variables left aside)
ReadIfNewSomeCore(r) ==
    /\ mainpc = "run"
    /\ rpc[r] = "idle"
    /\ version > rinLocal[r]
    /\ rinLocal' = [rinLocal EXCEPT ![r] = version]
    /\ rpc' = [rpc EXCEPT ![r] = "r_load"]
    /\ rop' = [rop EXCEPT ![r] = "rin"]
    /\ ReadStepped
    /\ UNCHANGED <<pipeVars, ridx, rbuf, hndLocal, rflag, trackVer>>

\* ReadIfNewSome, with the history it leaves
ReadIfNewSome(r) ==
    /\ ReadIfNewSomeCore(r)
    /\ rstart' = [rstart EXCEPT ![r] = nRet]
    /\ UNCHANGED <<lastSome, lastRead>>

\* read_if_new(): else { None }
ReadIfNewNone(r) ==
    /\ mainpc = "run"
    /\ rpc[r] = "idle"
    /\ ~(version > rinLocal[r])
    /\ rpc' = [rpc EXCEPT ![r] = "rin_none"]
    /\ rop' = [rop EXCEPT ![r] = "rin"]
    /\ ReadStepped
    /\ UNCHANGED <<pipeVars, ridx, rbuf, rinLocal, hndLocal, rflag, trackVer, lastSome, rstart, lastRead>>

\* has_new_data(): version.load() > local.load(), on its own thread-local
HasNewData(r) ==
    /\ mainpc = "run"
    /\ rpc[r] = "idle"
    /\ rflag' = [rflag EXCEPT ![r] = (version > hndLocal[r])]
    /\ rpc' = [rpc EXCEPT ![r] = "hnd_ret"]
    /\ rop' = [rop EXCEPT ![r] = "hnd"]
    /\ ReadStepped
    /\ UNCHANGED <<pipeVars, ridx, rbuf, rinLocal, hndLocal, trackVer, lastSome, rstart, lastRead>>

\* the slot read() takes its data from, given what current.load() returned
ReadIdxOther(c) == 1 - c
ReadIdx(c) == c

\* read(): let idx = self.current.load();
ReadLoad(r) ==
    /\ rpc[r] = "r_load"
    /\ ridx' = [ridx EXCEPT ![r] = ReadIdx(current)]
    /\ rpc' = [rpc EXCEPT ![r] = "r_lock"]
    /\ ReadStepped
    /\ UNCHANGED <<pipeVars, rop, rbuf, rinLocal, hndLocal, rflag, trackVer, lastSome, rstart, lastRead>>

\* the mutex of slot s once thread r has locked it
ReaderAcquireNothing(r, s) == lock
ReaderAcquire(r, s) == [lock EXCEPT ![s] = {r}]

\* read(): self.data[idx].lock() is Ok(g)
ReadLockOk(r) ==
    /\ rpc[r] = "r_lock"
    /\ LockFree(ridx[r])
    /\ ~poisoned[ridx[r]]
    /\ lock' = ReaderAcquire(r, ridx[r])
    /\ rbuf' = [rbuf EXCEPT ![r] = <<>>]
    /\ rpc' = [rpc EXCEPT ![r] = "r_copy"]
    /\ ReadStepped
    /\ UNCHANGED <<slots, poisoned, current, version, rop, ridx, rinLocal, hndLocal, rflag, trackVer, lastSome, rstart, lastRead>>

\* what read() returns when the mutex is poisoned: vec![0.0; BANDS]
FallbackShort == ShortSlice(0)
Fallback == Spectrum(0)

\* read(): self.data[idx].lock() is Err(PoisonError): unwrap_or_else gives the
\* fallback; the guard inside the error is dropped
ReadLockErr(r) ==
    /\ rpc[r] = "r_lock"
    /\ LockFree(ridx[r])
    /\ poisoned[ridx[r]]
    /\ rbuf' = [rbuf EXCEPT ![r] = Fallback]
    /\ rpc' = [rpc EXCEPT ![r] = "r_fell"]
    /\ ReadStepped
    /\ UNCHANGED <<pipeVars, rop, ridx, rinLocal, hndLocal, rflag, trackVer, lastSome, rstart, lastRead>>

\* read(): g.clone(), one element per step; the guard is dropped after the last
ReadCopy(r) ==
    /\ rpc[r] = "r_copy"
    /\ LET s == ridx[r]
           n == Len(rbuf[r]) + 1
       IN /\ rbuf' = [rbuf EXCEPT ![r] = Append(@, slots[s][n])]
          /\ IF n = Len(slots[s])
             THEN /\ lock' = [lock EXCEPT ![s] = @ \ {r}]
                  /\ rpc' = [rpc EXCEPT ![r] = "r_ret"]
             ELSE UNCHANGED <<lock, rpc>>
    /\ ReadStepped
    /\ UNCHANGED <<slots, poisoned, current, version, rop, ridx, rinLocal, hndLocal, rflag, trackVer, lastSome, rstart, lastRead>>

\* the positions at which read() hands rbuf back to its caller
ReadReturned == {"r_ret", "r_fell"}

\* read() returns to a direct caller (the history variables left aside)
ReturnReadCore(r) ==
    /\ rpc[r] \in ReadReturned
    /\ rop[r] = "read"
    /\ rpc' = [rpc EXCEPT ![r] = "idle"]
    /\ rop' = [rop EXCEPT ![r] = "none"]
    /\ rbuf' = [rbuf EXCEPT ![r] = <<>>]
    /\ ridx' = [ridx EXCEPT ![r] = 0]
    /\ ReadStepped
    /\ UNCHANGED <<pipeVars, rinLocal, hndLocal, rflag, trackVer>>

\* ReturnRead, with the history it leaves
ReturnRead(r) ==
    /\ ReturnReadCore(r)
    /\ rstart' = [rstart EXCEPT ![r] = 0]
    /\ lastRead' = IF r = Renderer THEN Tag(rbuf[r]) ELSE lastRead
    /\ UNCHANGED <<lastSome>>

\* read_if_new returns Some(rbuf) (the history variables left aside)
ReturnReadIfNewSomeCore(r) ==
    /\ rpc[r] \in ReadReturned
    /\ rop[r] = "rin"
    /\ rpc' = [rpc EXCEPT ![r] = "idle"]
    /\ rop' = [rop EXCEPT ![r] = "none"]
    /\ rbuf' = [rbuf EXCEPT ![r] = <<>>]
    /\ ridx' = [ridx EXCEPT ![r] = 0]
    /\ ReadStepped
    /\ UNCHANGED <<pipeVars, rinLocal, hndLocal, rflag, trackVer>>

\* ReturnReadIfNewSome, with the history it leaves
ReturnReadIfNewSome(r) ==
    /\ ReturnReadIfNewSomeCore(r)
    /\ lastSome' = [lastSome EXCEPT ![r] = IF rpc[r] = "r_ret" THEN Tag(rbuf[r]) ELSE -1]
    /\ rstart' = [rstart EXCEPT ![r] = 0]
    /\ UNCHANGED <<lastRead>>

\* read_if_new returns None
ReturnReadIfNewNone(r) ==
    /\ rpc[r] = "rin_none"
    /\ rpc' = [rpc EXCEPT ![r] = "idle"]
    /\ rop' = [rop EXCEPT ![r] = "none"]
    /\ ReadStepped
    /\ UNCHANGED <<pipeVars, ridx, rbuf, rinLocal, hndLocal, rflag, trackVer, lastSome, rstart, lastRead>>

\* has_new_data returns rflag
ReturnHasNewData(r) ==
    /\ rpc[r] = "hnd_ret"
    /\ rpc' = [rpc EXCEPT ![r] = "idle"]
    /\ rop' = [rop EXCEPT ![r] = "none"]
    /\ rflag' = [rflag EXCEPT ![r] = FALSE]
    /\ ReadStepped
    /\ UNCHANGED <<pipeVars, ridx, rbuf, rinLocal, hndLocal, trackVer, lastSome, rstart, lastRead>>

\* the version read_with_tracking pairs with its data: loaded after read()
\* has returned (the other one is the count taken when the call began)
VersionLoadedBeforeRead(r) == rstart[r]
VersionLoaded(r) == version

\* read_with_tracking(): let version = self.version.load();
TrackVersion(r) ==
    /\ rpc[r] \in ReadReturned
    /\ rop[r] = "rwt"
    /\ trackVer' = [trackVer EXCEPT ![r] = VersionLoaded(r)]
    /\ rpc' = [rpc EXCEPT ![r] = "rwt_ret"]
    /\ UNCHANGED lastRead
    /\ ReadStepped
    /\ UNCHANGED <<pipeVars, rop, ridx, rbuf, rinLocal, hndLocal, rflag, lastSome, rstart>>

\* read_with_tracking returns (rbuf, trackVer) (the history variables left aside)
ReturnReadWithTrackingCore(r) ==
    /\ rpc[r] = "rwt_ret"
    /\ rpc' = [rpc EXCEPT ![r] = "idle"]
    /\ rop' = [rop EXCEPT ![r] = "none"]
    /\ rbuf' = [rbuf EXCEPT ![r] = <<>>]
    /\ ridx' = [ridx EXCEPT ![r] = 0]
    /\ ReadStepped
    /\ UNCHANGED <<pipeVars, rinLocal, hndLocal, rflag, trackVer>>

\* ReturnReadWithTracking, with the history it leaves
ReturnReadWithTracking(r) ==
    /\ ReturnReadWithTrackingCore(r)
    /\ rstart' = [rstart EXCEPT ![r] = 0]
    /\ UNCHANGED <<lastSome, lastRead>>

\* the steps of read()
ReadBody(r) ==
    \/ ReadLoad(r)
    \/ ReadLockOk(r)
    \/ ReadCopy(r)

\* every step a thread can take inside the four read operations
PollerNext(r) ==
    \/ CallRead(r)
    \/ CallReadWithTracking(r)
    \/ ReadIfNewSome(r)
    \/ ReadIfNewNone(r)
    \/ HasNewData(r)
    \/ ReadBody(r)
    \/ ReadLockErr(r)
    \/ ReturnRead(r)
    \/ ReturnReadIfNewSome(r)
    \/ ReturnReadIfNewNone(r)
    \/ ReturnHasNewData(r)
    \/ TrackVersion(r)
    \/ ReturnReadWithTracking(r)

\* the renderer: window_event calls self.shared.read() on every redraw
RendererNext ==
    \/ CallRead(Renderer)
    \/ ReadBody(Renderer)
    \/ ReturnRead(Renderer)

----------------------------------------------------------------------------
\* Spec: the SharedPipe driven through its public API

\* a call of write(new_data); the slice is BANDS long or one short of it
ApiWrite ==
    /\ pc = "idle"
    /\ Len(wargs) < MaxWrites
    /\ \E ok \in BOOLEAN :
         wdata' = IF ok THEN Spectrum(Len(wargs) + 1) ELSE ShortSlice(Len(wargs) + 1)
    /\ wargs' = Append(wargs, wdata')
    /\ pc' = "w_load"
    /\ UNCHANGED <<pipeVars, widx, wi, nRet, nFail, readerVars, captureVars, windowVars, analyzerVars, bandVars>>

\* after the writer thread has panicked another thread takes its place: there
\* is still one call of write in flight at a time
ApiRespawn ==
    /\ pc = "panicked"
    /\ pc' = "idle"
    /\ UNCHANGED <<pipeVars, wdata, widx, wi, wargs, nRet, nFail, readerVars, captureVars, windowVars, analyzerVars, bandVars>>

Init ==
    /\ InitPipe
    /\ InitThreads
    /\ NoAnalysis
    /\ samples = <<>>
    /\ pc = "idle"
    /\ mainpc = "run"
    /\ captureOk = "pending"

Next ==
    \/ ApiWrite
    \/ ApiRespawn
    \/ WriteInner
    \/ WriteLockErr("idle")
    \/ WritePanic
    \/ WriteUnlock("idle")
    \/ PollerNext(Poller)
    \/ RendererNext
    \/ ReadLockErr(Renderer)

Spec == Init /\ [][Next]_vars

----------------------------------------------------------------------------
\* SpecCapture: main, the capture thread and the renderer

\* the kinds of packet GetBuffer hands out: flagged AUDCLNT_BUFFERFLAGS_SILENT,
\* finite samples, or samples that make a band energy NaN
PacketKinds == {"silent", "audio", "nan"}

\* the num_frames GetBuffer reports: packets shorter than the window, and one
\* whose num_frames * 2 samples exceed it
FrameCounts == {1, 2, FFT_SIZE \div 2 + 1}

\* one f32 of a packet, named by where it comes from: packet p (counted from 1),
\* frame f and channel c of that packet (counted from 0)
Sample(p, f, c) == [pkt |-> p, frame |-> f, ch |-> c]

\* the 0.0f32 of vec![0.0f32; FFT_SIZE]
ZeroSample == Sample(0, 0, 0)

\* let mut samples = vec![0.0f32; FFT_SIZE];
NewWindow == [i \in 1..FFT_SIZE |-> ZeroSample]

\* the packet GetBuffer hands out: packets come in order, avail of the arrived
\* ones have not been released yet
HeldPacket == arrived - avail + 1

\* raw_samples = from_raw_parts(data_ptr as *const f32, (num_frames * 2)): the
\* packet's frames, interleaved, two samples per frame
RawSamples(p, n) == [j \in 1..(n * 2) |-> Sample(p, (j - 1) \div 2, (j - 1) % 2)]

\* for (i, &sample) in raw_samples.iter().enumerate().take(FFT_SIZE)
\*     { samples[i] = sample; }
FillWindow(win, raw) ==
    [i \in 1..Len(win) |-> IF i <= Len(raw) /\ i <= FFT_SIZE THEN raw[i] ELSE win[i]]

\* no step of main or of the capture loop outside write touches the channel or
\* a reader's locals
CaptureStepped == UNCHANGED <<pipeVars, readerVars, widx, wi, nRet, nFail, analyzerVars, bandVars>>

\* main: std::thread::spawn(..), then run(spectrum)
MainSpawn ==
    /\ mainpc = "spawn"
    /\ pc = "unspawned"
    /\ mainpc' = "run"
    /\ pc' = "init"
    /\ CaptureStepped
    /\ UNCHANGED <<wdata, wargs, captureOk, avail, arrived, held, iter, windowVars>>

\* audio::capture::capture() is Ok(capture_client): the stream is started; the
\* planner, samples and fft_input are set up
CaptureInitOk ==
    /\ pc = "init"
    /\ captureOk' = "ok"
    /\ samples' = NewWindow
    /\ pc' = "gnps"
    /\ CaptureStepped
    /\ UNCHANGED <<wdata, wargs, mainpc, avail, arrived, held, iter, num_frames>>

\* where the process stands after capture() failed
InitErrMainExits == "exited"
InitErrMain == mainpc

\* audio::capture::capture() is Err(e): the message is printed and the thread's
\* closure returns
CaptureInitErr ==
    /\ pc = "init"
    /\ captureOk' = "failed"
    /\ pc' = "exited"
    /\ mainpc' = InitErrMain
    /\ CaptureStepped
    /\ UNCHANGED <<wdata, wargs, avail, arrived, held, iter, windowVars>>

\* the Audio Source has one more packet ready
PacketArrives ==
    /\ captureOk = "ok"
    /\ arrived < MaxPackets
    /\ arrived' = arrived + 1
    /\ avail' = avail + 1
    /\ CaptureStepped
    /\ UNCHANGED <<pc, wdata, wargs, mainpc, captureOk, held, iter, windowVars>>

\* GetNextPacketSize() is Ok(packet_length); packet_length > 0 iff a packet waits
GetNextPacketSizeOk ==
    /\ pc = "gnps"
    /\ iter' = [iter EXCEPT !.seen = avail]
    /\ pc' = IF avail > 0 THEN "getbuf" ELSE "sleep"
    /\ CaptureStepped
    /\ UNCHANGED <<wdata, wargs, mainpc, captureOk, avail, arrived, held, windowVars>>

\* GetNextPacketSize() is Err(e): the message is printed
GetNextPacketSizeErr ==
    /\ pc = "gnps"
    /\ iter' = [iter EXCEPT !.err = TRUE]
    /\ pc' = "sleep"
    /\ CaptureStepped
    /\ UNCHANGED <<wdata, wargs, mainpc, captureOk, avail, arrived, held, windowVars>>

\* where the loop goes once GetBuffer has handed out a packet of kind k
AfterGetBufferSkipsRelease(k) == IF k = "silent" THEN "sleep" ELSE "fill"
AfterGetBuffer(k) == IF k = "silent" THEN "release" ELSE "fill"

\* GetBuffer(..) is Ok(_): data_ptr, num_frames and flags are filled in
GetBufferOk ==
    /\ pc = "getbuf"
    /\ \E k \in PacketKinds :
         /\ held' = k
         /\ pc' = AfterGetBuffer(k)
    /\ \E n \in FrameCounts : num_frames' = n
    /\ iter' = [iter EXCEPT !.got = TRUE]
    /\ CaptureStepped
    /\ UNCHANGED <<wdata, wargs, mainpc, captureOk, avail, arrived, samples>>

\* where the loop goes once GetBuffer has failed
AfterGetBufferErrReturns == "exited"
AfterGetBufferErr == "sleep"

\* GetBuffer(..) is Err(e): the message is printed
GetBufferErr ==
    /\ pc = "getbuf"
    /\ iter' = [iter EXCEPT !.err = TRUE]
    /\ pc' = AfterGetBufferErr
    /\ CaptureStepped
    /\ UNCHANGED <<wdata, wargs, mainpc, captureOk, avail, arrived, held, windowVars>>

\* the samples are copied into the window and run_fft computes the bands, up to
\* its call spectrum_pipe.write(&bands); bands has BANDS elements
AnalyseAndCallWrite ==
    /\ pc = "fill"
    /\ held = "audio"
    /\ samples' = FillWindow(samples, RawSamples(HeldPacket, num_frames))
    /\ wdata' = Spectrum(Len(wargs) + 1)
    /\ wargs' = Append(wargs, wdata')
    /\ iter' = [iter EXCEPT !.wrote = TRUE]
    /\ pc' = "w_load"
    /\ CaptureStepped
    /\ UNCHANGED <<mainpc, captureOk, avail, arrived, held, num_frames>>

\* the samples are copied into the window; in run_fft, with a NaN band energy,
\* a.partial_cmp(b).unwrap() panics inside improved_normalize_spectrum; the
\* capture thread unwinds
AnalysePanics ==
    /\ pc = "fill"
    /\ held = "nan"
    /\ samples' = FillWindow(samples, RawSamples(HeldPacket, num_frames))
    /\ pc' = "panicked"
    /\ CaptureStepped
    /\ UNCHANGED <<wdata, wargs, mainpc, captureOk, avail, arrived, held, iter, num_frames>>

\* let _ = ReleaseBuffer(num_frames)
ReleaseBuffer ==
    /\ pc = "release"
    /\ held' = "none"
    /\ avail' = avail - 1
    /\ iter' = [iter EXCEPT !.released = @ + 1]
    /\ num_frames' = 0
    /\ pc' = "sleep"
    /\ CaptureStepped
    /\ UNCHANGED <<wdata, wargs, mainpc, captureOk, arrived, samples>>

\* std::thread::sleep(200 us), then the next iteration of the loop
Sleep ==
    /\ pc = "sleep"
    /\ iter' = IterIdle
    /\ pc' = "gnps"
    /\ CaptureStepped
    /\ UNCHANGED <<wdata, wargs, mainpc, captureOk, avail, arrived, held, windowVars>>

InitCapture ==
    /\ InitPipe
    /\ InitThreads
    /\ NoAnalysis
    /\ samples = <<>>
    /\ pc = "unspawned"
    /\ mainpc = "spawn"
    /\ captureOk = "pending"

\* write's poisoned-lock and panic branches are left out: the only caller passes
\* a BANDS-long vector, so no mutex is ever poisoned here
NextCapture ==
    \/ MainSpawn
    \/ CaptureInitOk
    \/ CaptureInitErr
    \/ PacketArrives
    \/ GetNextPacketSizeOk
    \/ GetNextPacketSizeErr
    \/ GetBufferOk
    \/ GetBufferErr
    \/ AnalyseAndCallWrite
    \/ AnalysePanics
    \/ WriteInner
    \/ WriteUnlock("release")
    \/ ReleaseBuffer
    \/ Sleep
    \/ RendererNext

SpecCapture == InitCapture /\ [][NextCapture]_vars

----------------------------------------------------------------------------
\* f32 arithmetic, in fixed point: the integer x stands for x / Unit

\* the integer that stands for 1.0
Unit == 1000

\* the decimal literal n / d
Fx(n, d) == (n * Unit) \div d

\* a * b, a / b and a.sqrt()
FxMul(a, b) == (a * b) \div Unit
FxDiv(a, b) == (a * Unit) \div b

RECURSIVE SqrtBetween(_, _, _)
\* the largest r in lo..hi with r * r <= v
SqrtBetween(lo, hi, v) ==
    IF lo = hi THEN lo
    ELSE LET mid == (lo + hi + 1) \div 2
         IN IF mid * mid <= v THEN SqrtBetween(mid, hi, v)
                              ELSE SqrtBetween(lo, mid - 1, v)

FxSqrt(a) == SqrtBetween(0, 46340, a * Unit)

Min(a, b) == IF a < b THEN a ELSE b
Max(a, b) == IF a > b THEN a ELSE b

RECURSIVE SeqSum(_)
\* the sum of the elements of a sequence
SeqSum(s) == IF s = <<>> THEN 0 ELSE s[1] + SeqSum(Tail(s))

----------------------------------------------------------------------------
\* The band index table: init_band_indices_cache of dsp/fft.rs, and the same
\* computation done inline, for every call, by run_fft of main.rs

\* number of run_fft calls each thread makes under SpecBands
MaxCalls == 2

\* (freq / freq_resolution) as usize, for a band edge: the cast gives an index
\* from 0 on, which may lie beyond the FFT_SIZE / 2 bins
RawBins == 0..(FFT_SIZE \div 2 + 1)

\* the indices the conversion can yield for the BANDS + 1 band edges: the edge
\* frequency 10^(log_min + log_range * i / BANDS) grows with i, the cast and the
\* division keep the order, and freq_end of band i is computed by the expression
\* that gives freq_start of band i + 1
RawEdgeSets ==
    {e \in [1..(BANDS + 1) -> RawBins] : \A i \in 1..BANDS : e[i] <= e[i + 1]}

\* let start_idx = start_idx.max(1).min(FFT_SIZE / 2 - 1);
StartIdxUnclamped(raw_start) == raw_start
StartIdx(raw_start) == Min(Max(raw_start, 1), FFT_SIZE \div 2 - 1)

\* let end_idx = end_idx.max(start_idx + 1).min(FFT_SIZE / 2);
EndIdx(raw_end, start_idx) == Min(Max(raw_end, start_idx + 1), FFT_SIZE \div 2)

\* the pair (start_idx, end_idx) of band i (counted from 0)
BandEntry(edges, i) ==
    LET start_idx == StartIdx(edges[i + 1])
    IN <<start_idx, EndIdx(edges[i + 2], start_idx)>>

\* the whole table, band by band
BandTable(edges) == [k \in 1..BANDS |-> BandEntry(edges, k - 1)]

\* no step of run_fft's prologue touches the channel, the capture loop or the
\* analysis in progress
BandStepped ==
    UNCHANGED <<pipeVars, writerVars, readerVars, captureVars, windowVars, analyzerVars, rawEdges>>

\* a thread calls run_fft
CallRunFft(t) ==
    /\ tpc[t] = "idle"
    /\ calls[t] < MaxCalls
    /\ calls' = [calls EXCEPT ![t] = @ + 1]
    /\ tpc' = [tpc EXCEPT ![t] = "chk"]
    /\ BandStepped
    /\ UNCHANGED <<cache, gains, cacheLock, gainsLock, cachePoison, firstTable, ci>>

\* X.lock().unwrap() on a poisoned mutex panics; the guards the thread holds
\* are dropped while it unwinds, which poisons their mutexes
LockPanics(t) ==
    /\ \/ tpc[t] \in {"chk", "init_lock", "use_lock"} /\ cacheLock = 0 /\ cachePoison[1]
       \/ tpc[t] \in {"init_gains", "use_gains"} /\ gainsLock = 0 /\ cachePoison[2]
    /\ cachePoison' = IF cacheLock = t THEN <<TRUE, cachePoison[2]>> ELSE cachePoison
    /\ cacheLock' = IF cacheLock = t THEN 0 ELSE cacheLock
    /\ tpc' = [tpc EXCEPT ![t] = "panicked"]
    /\ BandStepped
    /\ UNCHANGED <<cache, gains, gainsLock, calls, firstTable, ci>>

\* the holder of BAND_INDEX_CACHE's mutex once the condition of the if has
\* been evaluated: the guard is a temporary of the condition expression and is
\* dropped at its end, before the block is entered
GuardKeptAfterCheck(t) == t
GuardAfterCheck(t) == 0

\* run_fft: if BAND_INDEX_CACHE.lock().unwrap().is_empty() { init_band_indices_cache(); }
\* the guard is a temporary of the condition and is dropped before the call
CheckCacheEmpty(t) ==
    /\ tpc[t] = "chk"
    /\ cacheLock = 0
    /\ ~cachePoison[1]
    /\ cacheLock' = GuardAfterCheck(t)
    /\ tpc' = [tpc EXCEPT ![t] = IF cache = <<>> THEN "init_lock" ELSE "use_lock"]
    /\ BandStepped
    /\ UNCHANGED <<cache, gains, gainsLock, cachePoison, calls, firstTable, ci>>

\* init_band_indices_cache: let mut cache = BAND_INDEX_CACHE.lock().unwrap();
InitLock(t) ==
    /\ tpc[t] = "init_lock"
    /\ cacheLock = 0
    /\ ~cachePoison[1]
    /\ cacheLock' = t
    /\ tpc' = [tpc EXCEPT ![t] = "init_chk"]
    /\ BandStepped
    /\ UNCHANGED <<cache, gains, gainsLock, cachePoison, calls, firstTable, ci>>

\* !cache.is_empty()
CacheNeverFilled(c) == FALSE
CacheAlreadyFilled(c) == c # <<>>

\* init_band_indices_cache: if !cache.is_empty() { return; }
InitAlreadyDone(t) ==
    /\ tpc[t] = "init_chk"
    /\ CacheAlreadyFilled(cache)
    /\ cacheLock' = 0
    /\ tpc' = [tpc EXCEPT ![t] = "use_lock"]
    /\ BandStepped
    /\ UNCHANGED <<cache, gains, gainsLock, cachePoison, calls, firstTable, ci>>

\* init_band_indices_cache: the cache was empty, the loop over the bands starts
InitStart(t) ==
    /\ tpc[t] = "init_chk"
    /\ ~CacheAlreadyFilled(cache)
    /\ ci' = 0
    /\ tpc' = [tpc EXCEPT ![t] = "init_push"]
    /\ BandStepped
    /\ UNCHANGED <<cache, gains, cacheLock, gainsLock, cachePoison, calls, firstTable>>

\* init_band_indices_cache: one iteration of for i in 0..BANDS { ..
\* cache.push((start_idx, end_idx)); }
InitPush(t) ==
    /\ tpc[t] = "init_push"
    /\ ci < BANDS
    /\ cache' = Append(cache, BandEntry(rawEdges, ci))
    /\ ci' = ci + 1
    /\ BandStepped
    /\ UNCHANGED <<gains, cacheLock, gainsLock, cachePoison, tpc, calls, firstTable>>

\* init_band_indices_cache: the loop is over
InitPushDone(t) ==
    /\ tpc[t] = "init_push"
    /\ ci = BANDS
    /\ tpc' = [tpc EXCEPT ![t] = "init_gains"]
    /\ BandStepped
    /\ UNCHANGED <<cache, gains, cacheLock, gainsLock, cachePoison, calls, firstTable, ci>>

\* init_band_indices_cache: let mut gains_cache = BAND_GAINS_CACHE.lock().unwrap();
\* *gains_cache = vec![1.0; BANDS]; both guards are dropped at the return
InitGains(t) ==
    /\ tpc[t] = "init_gains"
    /\ gainsLock = 0
    /\ ~cachePoison[2]
    /\ gains' = [k \in 1..BANDS |-> Unit]
    /\ cacheLock' = 0
    /\ firstTable' = IF firstTable = <<>> THEN cache ELSE firstTable
    /\ tpc' = [tpc EXCEPT ![t] = "use_lock"]
    /\ BandStepped
    /\ UNCHANGED <<cache, gainsLock, cachePoison, calls, ci>>

\* run_fft: let band_index = BAND_INDEX_CACHE.lock().unwrap();
UseLock(t) ==
    /\ tpc[t] = "use_lock"
    /\ cacheLock = 0
    /\ ~cachePoison[1]
    /\ cacheLock' = t
    /\ tpc' = [tpc EXCEPT ![t] = "use_gains"]
    /\ BandStepped
    /\ UNCHANGED <<cache, gains, gainsLock, cachePoison, calls, firstTable, ci>>

\* run_fft: let band_gains = BAND_GAINS_CACHE.lock().unwrap();
UseGains(t) ==
    /\ tpc[t] = "use_gains"
    /\ gainsLock = 0
    /\ ~cachePoison[2]
    /\ gainsLock' = t
    /\ tpc' = [tpc EXCEPT ![t] = "body"]
    /\ BandStepped
    /\ UNCHANGED <<cache, gains, cacheLock, cachePoison, calls, firstTable, ci>>

\* run_fft: the analysis, which reads band_index[i] and band_gains[i] for every
\* band, and the return, which drops the two guards
RunFftBody(t) ==
    /\ tpc[t] = "body"
    /\ Len(cache) >= BANDS
    /\ Len(gains) >= BANDS
    /\ cacheLock' = 0
    /\ gainsLock' = 0
    /\ tpc' = [tpc EXCEPT ![t] = "idle"]
    /\ BandStepped
    /\ UNCHANGED <<cache, gains, cachePoison, calls, firstTable, ci>>

\* run_fft: the analysis panics (a NaN band energy reaches partial_cmp(..)
\* .unwrap() in improved_normalize_spectrum) with the two guards held
RunFftBodyPanics(t) ==
    /\ tpc[t] = "body"
    /\ cacheLock' = 0
    /\ gainsLock' = 0
    /\ cachePoison' = <<TRUE, TRUE>>
    /\ tpc' = [tpc EXCEPT ![t] = "panicked"]
    /\ BandStepped
    /\ UNCHANGED <<cache, gains, calls, firstTable, ci>>

\* every step of a thread in run_fft of dsp/fft.rs
RunFftNext(t) ==
    \/ CallRunFft(t)
    \/ LockPanics(t)
    \/ CheckCacheEmpty(t)
    \/ InitLock(t)
    \/ InitAlreadyDone(t)
    \/ InitStart(t)
    \/ InitPush(t)
    \/ InitPushDone(t)
    \/ InitGains(t)
    \/ UseLock(t)
    \/ UseGains(t)
    \/ RunFftBody(t)
    \/ RunFftBodyPanics(t)

InitBands ==
    /\ InitPipe
    /\ InitThreads
    /\ AnalyzerIdle
    /\ BandCacheIdle
    /\ rawEdges \in RawEdgeSets
    /\ samples = <<>>
    /\ pc = "idle"
    /\ mainpc = "run"
    /\ captureOk = "pending"

NextBands == \E t \in FftThreads : RunFftNext(t)

SpecBands == InitBands /\ [][NextBands]_vars

----------------------------------------------------------------------------
\* run_fft (main.rs and dsp/fft.rs) and the functions it calls

\* largest amplitude of an input sample under SpecAnalyzer
MaxAmp == 2

Variants == {"main", "dsp"}

\* Complex::new(re, im)
Complex(re, im) == [re |-> re, im |-> im]

\* the sample windows run_fft is handed: n samples, the first k at amplitude a,
\* the rest 0.0 (k = 0: silence, k = 1: an impulse, k = n: a constant)
Windows(n) ==
    {[i \in 1..n |-> IF i <= k THEN a * Unit ELSE 0] : k \in 0..n, a \in 1..MaxAmp}

\* main.rs passes its window of FFT_SIZE samples; run_fft of dsp/fft.rs is
\* public and takes a slice of any length
InputWindows(v) ==
    IF v = "main" THEN Windows(FFT_SIZE)
    ELSE UNION {Windows(n) : n \in 0..(FFT_SIZE + 1)}

\* fft_input is reused from call to call: what an earlier transform left in it
StaleBuffer == [i \in 1..FFT_SIZE |-> Complex(7 * Unit, 7 * Unit)]

\* no step of the analysis touches the channel, a reader, the capture loop's
\* state, the window or the band cache
AnalyzerStepped ==
    UNCHANGED <<pipeVars, readerVars, captureVars, windowVars, bandVars, variant, widx, wi, nRet, nFail>>

\* main.rs: for i in 0..FFT_SIZE { fft_input[i].re = samples[i]; fft_input[i].im = 0.0; }
MainCopy ==
    /\ pc = "m_copy"
    /\ IF di < FFT_SIZE
       THEN /\ fft_input' = [fft_input EXCEPT ![di + 1] = Complex(samples[di + 1], 0)]
            /\ di' = di + 1
            /\ pc' = pc
       ELSE /\ pc' = "a_fft"
            /\ UNCHANGED <<fft_input, di>>
    /\ AnalyzerStepped
    /\ UNCHANGED <<windowed_samples, bands, reference, wdata, wargs>>

\* let samples_len = samples.len().min(FFT_SIZE);
SamplesLen == Min(Len(samples), FFT_SIZE)

\* dsp/fft.rs: let mut windowed_samples = vec![0.0f32; samples_len];
\* let chunks = samples_len / 8;
DspAlloc ==
    /\ pc = "d_alloc"
    /\ windowed_samples' = [i \in 1..SamplesLen |-> 0]
    /\ di' = 0
    /\ pc' = "d_chunk"
    /\ AnalyzerStepped
    /\ UNCHANGED <<fft_input, bands, reference, wdata, wargs>>

\* dsp/fft.rs: for chunk in 0..chunks { let base = chunk * 8;
\* windowed_samples[base] = samples[base]; .. windowed_samples[base + 7] = samples[base + 7]; }
DspChunk ==
    /\ pc = "d_chunk"
    /\ IF di < SamplesLen \div 8
       THEN /\ windowed_samples' =
                  [i \in 1..Len(windowed_samples) |->
                      IF i - 1 \in (di * 8)..(di * 8 + 7) THEN samples[i]
                      ELSE windowed_samples[i]]
            /\ di' = di + 1
            /\ pc' = pc
       ELSE /\ pc' = "d_copy"
            /\ di' = 0
            /\ UNCHANGED windowed_samples
    /\ AnalyzerStepped
    /\ UNCHANGED <<fft_input, bands, reference, wdata, wargs>>

\* dsp/fft.rs: for i in 0..samples_len { fft_input[i].re = windowed_samples[i];
\* fft_input[i].im = 0.0; }
DspCopy ==
    /\ pc = "d_copy"
    /\ IF di < SamplesLen
       THEN /\ fft_input' = [fft_input EXCEPT ![di + 1] = Complex(windowed_samples[di + 1], 0)]
            /\ di' = di + 1
            /\ pc' = pc
       ELSE /\ pc' = "d_pad"
            /\ UNCHANGED <<fft_input, di>>
    /\ AnalyzerStepped
    /\ UNCHANGED <<windowed_samples, bands, reference, wdata, wargs>>

\* dsp/fft.rs: for i in samples_len..FFT_SIZE { fft_input[i].re = 0.0; fft_input[i].im = 0.0; }
DspPad ==
    /\ pc = "d_pad"
    /\ IF di < FFT_SIZE
       THEN /\ fft_input' = [fft_input EXCEPT ![di + 1] = Complex(0, 0)]
            /\ di' = di + 1
            /\ pc' = pc
       ELSE /\ pc' = "a_fft"
            /\ UNCHANGED <<fft_input, di>>
    /\ AnalyzerStepped
    /\ UNCHANGED <<windowed_samples, bands, reference, wdata, wargs>>

\* cos and sin of 2 pi m / FFT_SIZE for m = 0..7, in fixed point
CosTable == <<1000, 707, 0, -707, -1000, -707, 0, 707>>
SinTable == <<0, 707, 1000, 707, 0, -707, -1000, -707>>
Cos(m) == CosTable[(m % FFT_SIZE) + 1]
Sin(m) == SinTable[(m % FFT_SIZE) + 1]

\* fft.process(buf): output k is the sum over n of buf[n] * e^(-2 pi i k n / FFT_SIZE)
Dft(buf) ==
    [k \in 1..FFT_SIZE |->
        Complex(
            SeqSum([n \in 1..FFT_SIZE |->
                FxMul(buf[n].re, Cos((k - 1) * (n - 1))) + FxMul(buf[n].im, Sin((k - 1) * (n - 1)))]),
            SeqSum([n \in 1..FFT_SIZE |->
                FxMul(buf[n].im, Cos((k - 1) * (n - 1))) - FxMul(buf[n].re, Sin((k - 1) * (n - 1)))]))]

\* fft.process(fft_input); let mut bands = vec![0.0f32; BANDS];
Transform ==
    /\ pc = "a_fft"
    /\ fft_input' = Dft(fft_input)
    /\ bands' = [k \in 1..BANDS |-> 0]
    /\ di' = 0
    /\ pc' = "a_band"
    /\ AnalyzerStepped
    /\ UNCHANGED <<windowed_samples, reference, wdata, wargs>>

\* re * re + im * im of bin idx (counted from 0) of spectrum = &fft_input[..FFT_SIZE / 2]
MagSq(spectrum, idx) ==
    FxMul(spectrum[idx + 1].re, spectrum[idx + 1].re)
        + FxMul(spectrum[idx + 1].im, spectrum[idx + 1].im)

\* main.rs: the band's RMS: for idx in start_idx..end_idx { magnitude = (..).sqrt();
\* sum_squares += magnitude * magnitude; count += 1 }; if count > 0 { (sum_squares / count).sqrt() }
BandRmsMain(spectrum, start_idx, end_idx) ==
    LET count == IF end_idx > start_idx THEN end_idx - start_idx ELSE 0
        sum_squares ==
            SeqSum([j \in 1..count |->
                LET magnitude == FxSqrt(MagSq(spectrum, start_idx + j - 1))
                IN FxMul(magnitude, magnitude)])
    IN IF count > 0 THEN FxSqrt(sum_squares \div count) ELSE 0

\* dsp/fft.rs: the sum of re * re + im * im over start_idx..end_idx
compute_magnitudes(spectrum, start_idx, end_idx) ==
    SeqSum([j \in 1..(end_idx - start_idx) |-> MagSq(spectrum, start_idx + j - 1)])

\* dsp/fft.rs: if start_idx >= end_idx { continue; } ..
\* bands[i] = (sum_squares / count).sqrt() * band_gains[i]
BandRmsDsp(spectrum, entry, gain) ==
    IF entry[1] >= entry[2] THEN 0
    ELSE FxMul(FxSqrt(compute_magnitudes(spectrum, entry[1], entry[2])
                          \div (entry[2] - entry[1])), gain)

\* one iteration of the loop over the bands: main.rs computes the band's indices
\* on the spot, dsp/fft.rs takes them from the cache
ComputeBand ==
    /\ pc = "a_band"
    /\ IF di < BANDS
       THEN /\ bands' =
                  [bands EXCEPT ![di + 1] =
                      IF variant = "main"
                      THEN LET entry == BandEntry(rawEdges, di)
                           IN BandRmsMain(fft_input, entry[1], entry[2])
                      ELSE BandRmsDsp(fft_input, cache[di + 1], gains[di + 1])]
            /\ di' = di + 1
            /\ pc' = pc
       ELSE /\ pc' = "a_gain"
            /\ UNCHANGED <<bands, di>>
    /\ AnalyzerStepped
    /\ UNCHANGED <<fft_input, windowed_samples, reference, wdata, wargs>>

\* apply_band_gain_compensation(&mut bands)
apply_band_gain_compensation(b) ==
    [k \in 1..Len(b) |->
        LET freq_ratio == ((k - 1) * Unit) \div Len(b)
        IN IF freq_ratio < Fx(3, 10)
           THEN FxMul(b[k], Unit - FxMul(Fx(3, 10) - freq_ratio, Fx(2, 1)))
           ELSE IF freq_ratio > Fx(8, 10)
           THEN FxMul(b[k], Unit + FxMul(freq_ratio - Fx(8, 10), Fx(15, 10)))
           ELSE b[k]]

ApplyGain ==
    /\ pc = "a_gain"
    /\ bands' = apply_band_gain_compensation(bands)
    /\ pc' = "a_norm"
    /\ AnalyzerStepped
    /\ UNCHANGED <<fft_input, windowed_samples, reference, di, wdata, wargs>>

\* the 1e-6 of .max(1e-6): the smallest positive value of the fixed point
Epsilon == 1

\* s_curve_enhancement(x)
s_curve_without_low_branch(x) ==
    IF x > Fx(9, 10)
    THEN Fx(9, 10) + FxMul(x - Fx(9, 10), Fx(5, 1))
    ELSE LET t == FxDiv(x - Fx(1, 10), Fx(8, 10))
         IN Fx(1, 100) + FxMul(Fx(98, 100), FxMul(t, t))
s_curve_enhancement(x) ==
    IF x < Fx(1, 10)
    THEN FxMul(x, Fx(1, 10))
    ELSE IF x > Fx(9, 10)
    THEN Fx(9, 10) + FxMul(x - Fx(9, 10), Fx(5, 1))
    ELSE LET t == FxDiv(x - Fx(1, 10), Fx(8, 10))
         IN Fx(1, 100) + FxMul(Fx(98, 100), FxMul(t, t))

\* sorted_bands[percentile_95_idx.max(1)].max(1e-6), with
\* percentile_95_idx = (sorted_bands.len() as f32 * 0.95) as usize
ReferenceValue(b) ==
    LET sorted_bands == SortSeq(b, LAMBDA x, y : x < y)
        percentile_95_idx == (Len(b) * 95) \div 100
    IN Max(sorted_bands[Max(percentile_95_idx, 1) + 1], Epsilon)

\* (*band / reference_value).clamp(0.0, 1.0)
Normalized(band, reference_value) == Min(Max(FxDiv(band, reference_value), 0), Unit)

\* improved_normalize_spectrum(&mut bands)
improved_normalize_spectrum(b) ==
    [k \in 1..Len(b) |-> s_curve_enhancement(Normalized(b[k], ReferenceValue(b)))]

Normalize ==
    /\ pc = "a_norm"
    /\ reference' = ReferenceValue(bands)
    /\ bands' = improved_normalize_spectrum(bands)
    /\ pc' = "a_write"
    /\ AnalyzerStepped
    /\ UNCHANGED <<fft_input, windowed_samples, di, wdata, wargs>>

\* spectrum_pipe.write(&bands)
CallWrite ==
    /\ pc = "a_write"
    /\ wdata' = bands
    /\ wargs' = Append(wargs, bands)
    /\ pc' = "w_load"
    /\ AnalyzerStepped
    /\ UNCHANGED <<fft_input, windowed_samples, bands, reference, di>>

\* run_fft is entered with the window; under "dsp" the thread holds the guards
\* of the two caches, which the first call has filled
InitAnalyzer ==
    /\ InitPipe
    /\ InitThreads
    /\ rawEdges \in RawEdgeSets
    /\ \E v \in Variants :
        /\ variant = v
        /\ samples \in InputWindows(v)
        /\ pc = IF v = "main" THEN "m_copy" ELSE "d_alloc"
        /\ cache = IF v = "main" THEN <<>> ELSE BandTable(rawEdges)
        /\ gains = IF v = "main" THEN <<>> ELSE [k \in 1..BANDS |-> Unit]
        /\ cacheLock = IF v = "main" THEN 0 ELSE 1
        /\ gainsLock = IF v = "main" THEN 0 ELSE 1
        /\ tpc = [t \in FftThreads |-> IF v = "dsp" /\ t = 1 THEN "body" ELSE "idle"]
        /\ calls = [t \in FftThreads |-> IF v = "dsp" /\ t = 1 THEN 1 ELSE 0]
    /\ firstTable = cache
    /\ cachePoison = <<FALSE, FALSE>>
    /\ ci = 0
    /\ fft_input = StaleBuffer
    /\ windowed_samples = <<>>
    /\ bands = <<>>
    /\ reference = 0
    /\ di = 0
    /\ mainpc = "run"
    /\ captureOk = "ok"

NextAnalyzer ==
    \/ MainCopy
    \/ DspAlloc
    \/ DspChunk
    \/ DspCopy
    \/ DspPad
    \/ Transform
    \/ ComputeBand
    \/ ApplyGain
    \/ Normalize
    \/ CallWrite
    \/ WriteInner
    \/ WriteUnlock("a_done")

SpecAnalyzer == InitAnalyzer /\ [][NextAnalyzer]_vars

----------------------------------------------------------------------------
\* SpecRun: one thread calling run_fft of dsp/fft.rs, which calls write with
\* the guards of the two caches held, beside the threads calling the read
\* operations

\* the thread calling run_fft
Producer == 1

\* run_fft: the analysis up to improved_normalize_spectrum, then
\* spectrum_pipe.write(&bands) is called; band_index and band_gains are alive
RunFftCallWrite(t) ==
    /\ tpc[t] = "body"
    /\ pc = "idle"
    /\ Len(cache) >= BANDS
    /\ Len(gains) >= BANDS
    /\ wdata' = Spectrum(Len(wargs) + 1)
    /\ wargs' = Append(wargs, wdata')
    /\ pc' = "w_load"
    /\ tpc' = [tpc EXCEPT ![t] = "write"]
    /\ UNCHANGED <<pipeVars, widx, wi, nRet, nFail, readerVars, captureVars, windowVars, analyzerVars>>
    /\ UNCHANGED <<rawEdges, cache, gains, cacheLock, gainsLock, cachePoison, calls, ci, firstTable>>

\* run_fft: write has returned; the function ends and drops band_gains and
\* band_index
RunFftReturn(t) ==
    /\ tpc[t] = "write"
    /\ pc = "f_ret"
    /\ cacheLock' = 0
    /\ gainsLock' = 0
    /\ tpc' = [tpc EXCEPT ![t] = "idle"]
    /\ pc' = "idle"
    /\ UNCHANGED <<pipeVars, wdata, widx, wi, wargs, nRet, nFail, readerVars, captureVars, windowVars, analyzerVars>>
    /\ UNCHANGED <<rawEdges, cache, gains, cachePoison, calls, ci, firstTable>>

\* the steps of the producer inside a call of run_fft
ProducerStep ==
    \/ CheckCacheEmpty(Producer)
    \/ InitLock(Producer)
    \/ InitStart(Producer)
    \/ InitPush(Producer)
    \/ InitPushDone(Producer)
    \/ InitGains(Producer)
    \/ UseLock(Producer)
    \/ UseGains(Producer)
    \/ RunFftCallWrite(Producer)
    \/ RunFftBodyPanics(Producer)
    \/ WriteInner
    \/ WriteUnlock("f_ret")
    \/ RunFftReturn(Producer)

\* no history of the read operations is recorded under SpecRun
NoHistory == UNCHANGED <<rstart, lastSome, lastRead>>

\* a consumer calls one of read, read_if_new, read_with_tracking (the renderer
\* only read)
ConsumerCall(r) ==
    \/ CallReadCore(r) /\ NoHistory
    \/ r = Poller /\ CallReadWithTrackingCore(r) /\ NoHistory
    \/ r = Poller /\ ReadIfNewSomeCore(r) /\ NoHistory
    \/ r = Poller /\ ReadIfNewNone(r)

\* the steps of a consumer inside a call
ConsumerStep(r) ==
    \/ ReadBody(r)
    \/ ReturnReadCore(r) /\ NoHistory
    \/ ReturnReadIfNewSomeCore(r) /\ NoHistory
    \/ ReturnReadIfNewNone(r)
    \/ TrackVersion(r)
    \/ ReturnReadWithTrackingCore(r) /\ NoHistory

\* the caches are empty and untouched, no call is in progress; the band
\* edges are one fixed conversion result (the locks do not depend on them)
InitRun ==
    /\ InitPipe
    /\ InitThreads
    /\ AnalyzerIdle
    /\ BandCacheIdle
    /\ rawEdges = [i \in 1..(BANDS + 1) |-> i]
    /\ samples = <<>>
    /\ pc = "idle"
    /\ mainpc = "run"
    /\ captureOk = "pending"

NextRun ==
    \/ CallRunFft(Producer)
    \/ ProducerStep
    \/ \E r \in Readers : ConsumerCall(r)
    \/ \E r \in Readers : ConsumerStep(r)

\* fair scheduling: a thread inside a call that can take a step again and
\* again, a lock() on a mutex that keeps being released included, takes it
\* (no thread is obliged to make a call).  Weak fairness would not do for the
\* consumers: std::sync::Mutex hands a released mutex to whichever thread
\* locks it first, so one reader can overtake another at the same slot forever
FairRun ==
    /\ SF_vars(ProducerStep)
    /\ \A r \in Readers : SF_vars(ConsumerStep(r))

SpecRun == InitRun /\ [][NextRun]_vars /\ FairRun

----------------------------------------------------------------------------
\* Claims about the SharedPipe (checked under Spec)

\* the spectra that some write call was handed in full
Published == {wargs[k] : k \in 1..Len(wargs)}

\* the positions at which a reader holds the vector read() gave it
HoldsResult == ReadReturned \cup {"rwt_ret"}

\* C1: every vector read returns is, element for element, the all-zero
\* spectrum of new() or the complete argument of one single write call; it never
\* mixes elements of two writes.
C1_NoTornRead ==
    \A r \in Readers :
        rpc[r] \in HoldsResult =>
            \/ rbuf[r] = Zeros
            \/ rbuf[r] \in Published

\* C1 witness: a read has returned the first write's spectrum while a later
\* write is in the middle of its copy.
C1_Witness ==
    /\ pc = "w_copy"
    /\ wi > 0
    /\ \E r \in Readers : rpc[r] = "r_ret" /\ rbuf[r] = Spectrum(1) /\ ridx[r] = widx

\* C2: whenever write is about to acquire the mutex of its slot, no reader
\* holds that mutex (the producer never waits on a consumer).
C2_ProducerNeverWaitsOnReader ==
    (pc = "w_lock" /\ Len(wdata) = BANDS) => lock[widx] \cap Readers = {}

\* C3: the versions read_with_tracking returns to one thread never decrease;
\* version goes up by exactly 1 per write that returns from its Ok branch, and
\* is changed by nothing else: not by a write that finds the lock poisoned, not
\* by any read operation.
C3_VersionMonotonic ==
    /\ [](version = nRet + (IF pc = "w_unlock" THEN 1 ELSE 0))
    /\ [][version' # version => (pc = "w_ver" /\ version' = version + 1)]_vars
    /\ [][\A r \in Readers : trackVer'[r] >= trackVer[r]]_vars

\* C3 witness: a write has succeeded, a later one has failed on a poisoned
\* lock, and read_with_tracking has returned the version in between.
C3_Witness ==
    /\ nRet > 0
    /\ nFail > 0
    /\ rpc[Poller] = "rwt_ret"
    /\ trackVer[Poller] = version

\* C4: a successful write copies into the slot current does not select, then
\* stores that slot's index into current, then increments version; the slot
\* being copied into is never the one current selects.
C4_WriteOrder ==
    /\ [](pc \in {"w_check", "w_copy", "w_store"} => current # widx)
    /\ [][slots' # slots =>
            (pc = "w_copy" /\ current' = current /\ version' = version)]_vars
    /\ [][current' # current =>
            (pc = "w_store" /\ slots[widx] = wdata /\ current' = widx
             /\ slots' = slots /\ version' = version)]_vars
    /\ [][version' # version =>
            (pc = "w_ver" /\ slots[widx] = wdata /\ current = widx
             /\ slots' = slots /\ current' = current)]_vars

\* C4 witness: the second write is half-way through its copy while a reader
\* is copying out of the slot current selects.
C4_Witness ==
    /\ pc = "w_copy"
    /\ wi > 0
    /\ version = 1
    /\ \E r \in Readers : rpc[r] = "r_copy" /\ ridx[r] = current

\* C5: two successive Some results of read_if_new on one thread never carry
\* the same published spectrum.
C5_EachPublishDeliveredOnce ==
    \A r \in Readers :
        (rpc[r] = "r_ret" /\ rop[r] = "rin") => Tag(rbuf[r]) # lastSome[r]

\* C6: once a thread's read_if_new has returned Some with its cursor at the
\* present version, and no write is in flight, has_new_data on that thread
\* returns false.
C6_HasNewDataFalseWhenCaughtUp ==
    \A r \in Readers :
        (/\ rpc[r] = "hnd_ret"
         /\ rinLocal[r] = version
         /\ lastSome[r] = version
         /\ pc \notin WritePcs) => rflag[r] = FALSE

\* C7: a read that finds the mutex of its slot poisoned returns normally a
\* vector of BANDS values, all zeros or a published spectrum, and leaves
\* current, version and both slots as they were.
C7_PoisonedReadFallsBack ==
    /\ [](\A r \in Readers :
            rpc[r] = "r_fell" =>
                /\ Len(rbuf[r]) = BANDS
                /\ (rbuf[r] = Zeros \/ rbuf[r] \in Published))
    /\ [][\A r \in Readers :
            rpc'[r] = "r_fell" /\ rpc[r] # "r_fell" =>
                (rpc[r] = "r_lock" /\ poisoned[ridx[r]] /\ UNCHANGED pipeVars)]_vars
    /\ [][\A r \in Readers :
            rpc[r] = "r_fell" /\ rpc'[r] # "r_fell" =>
                (rpc'[r] \in {"idle", "rwt_ret"} /\ UNCHANGED pipeVars)]_vars

\* C7 witness: a read fell back on a poisoned mutex after a spectrum had been
\* published.
C7_Witness ==
    /\ version > 0
    /\ \E r \in Readers : rpc[r] = "r_fell" /\ poisoned[ridx[r]]

----------------------------------------------------------------------------
\* Claims about the capture loop (checked under SpecCapture)

\* C8: when capture() has failed the process lives on and nothing is ever
\* written: version is 0, both slots are zero, every read gives BANDS zeros, and
\* the renderer is running and can always take its next step.
C8_CaptureFailureIsSilence ==
    captureOk = "failed" =>
        /\ pc = "exited"
        /\ mainpc = "run"
        /\ wargs = <<>>
        /\ version = 0
        /\ current = 0
        /\ slots = [s \in Slots |-> Zeros]
        /\ (rpc[Renderer] \in ReadReturned => rbuf[Renderer] = Spectrum(0))
        /\ ENABLED RendererNext

\* C8 witness: the renderer has read a spectrum after capture() failed.
C8_Witness ==
    /\ captureOk = "failed"
    /\ rpc[Renderer] = "r_ret"
    /\ Len(rbuf[Renderer]) = BANDS

\* C9: after an error of GetNextPacketSize or GetBuffer the capture thread is
\* alive at its sleep, the iteration has called neither write nor
\* ReleaseBuffer, and the thread's next step is the next poll.
C9_AcquisitionErrorNotFatal ==
    /\ [](iter.err =>
            /\ captureOk = "ok"
            /\ pc = "sleep"
            /\ ~iter.wrote
            /\ iter.released = 0
            /\ held = "none"
            /\ ENABLED Sleep)
    /\ [][iter.err /\ pc' # pc => (pc' = "gnps" /\ ~iter'.err)]_vars

\* C9 witness: GetBuffer failed on a waiting packet after an earlier packet was
\* published.
C9_Witness ==
    /\ iter.err
    /\ avail > 0
    /\ version > 0

----------------------------------------------------------------------------
\* Claims about the band table (checked under SpecBands)

\* C11: whatever bin indices the conversion yields for the band edges, every
\* entry (start, end) of the band table has 1 <= start < end <= FFT_SIZE / 2,
\* and the start indices never decrease from one band to the next; the same
\* holds of the indices run_fft of main.rs computes on the spot.
C11_BandTableInRange ==
    /\ \A k \in 1..Len(cache) :
        /\ 1 <= cache[k][1]
        /\ cache[k][1] < cache[k][2]
        /\ cache[k][2] <= FFT_SIZE \div 2
        /\ (k > 1 => cache[k - 1][1] <= cache[k][1])
    /\ \A i \in 0..(BANDS - 1) :
        LET entry == BandEntry(rawEdges, i)
        IN /\ 1 <= entry[1]
           /\ entry[1] < entry[2]
           /\ entry[2] <= FFT_SIZE \div 2
           /\ (i > 0 => BandEntry(rawEdges, i - 1)[1] <= entry[1])

\* C11 witness: the table is complete, its first edge was converted to bin 0
\* and its last edge to a bin beyond FFT_SIZE / 2, so both clamps have acted.
C11_Witness ==
    /\ Len(cache) = BANDS
    /\ rawEdges[1] = 0
    /\ rawEdges[BANDS + 1] > FFT_SIZE \div 2

\* C12: once a thread is past the initialization part of a run_fft call, and
\* after any number of calls, racing or not, BAND_INDEX_CACHE holds exactly
\* BANDS entries, those the first initialization pushed; nothing changes them
\* afterwards, a later call of init_band_indices_cache included.
C12_BandCacheIdempotent ==
    /\ [](\A t \in FftThreads :
            (\/ tpc[t] \in {"use_lock", "use_gains", "body", "panicked"}
             \/ (tpc[t] = "idle" /\ calls[t] > 0)) =>
                (/\ Len(cache) = BANDS
                 /\ cache = firstTable
                 /\ cache = BandTable(rawEdges)))
    /\ [][firstTable # <<>> => (cache' = firstTable /\ firstTable' = firstTable)]_vars

\* C12 witness: a thread that found the cache empty at the start of run_fft is
\* inside init_band_indices_cache after another thread has filled the cache.
C12_Witness ==
    /\ firstTable # <<>>
    /\ Len(cache) = BANDS
    /\ \E t \in FftThreads : tpc[t] = "init_chk" /\ cacheLock = t

----------------------------------------------------------------------------
\* Claims about the analysis (checked under SpecAnalyzer)

\* C13: when the reference value is above the epsilon floor, every value
\* improved_normalize_spectrum leaves in bands lies in [0, 1.2].
C13_NormalizedWithinBound ==
    (pc = "a_write" /\ reference > Epsilon) =>
        \A k \in 1..BANDS : 0 <= bands[k] /\ bands[k] <= Fx(12, 10)

\* the window handed to run_fft is all zeros
ZeroWindow == \A i \in 1..Len(samples) : samples[i] = 0

\* C14: for an all-zero sample window every band energy is 0, the reference
\* value is the epsilon floor, the normalized and enhanced values are 0, the
\* vector handed to write is BANDS zeros and that is what gets published.
C14_SilenceGivesZeroSpectrum ==
    ZeroWindow =>
        /\ (pc \in {"a_band", "a_gain", "a_norm", "a_write"} => bands = Zeros)
        /\ (pc = "a_write" => reference = Epsilon)
        /\ (pc \in WritePcs => (wdata = Zeros /\ Len(wdata) = BANDS))
        /\ (pc = "a_done" => (version = 1 /\ slots[current] = Zeros))

\* C14 witness: run_fft of main.rs has published the spectrum of a window of
\* FFT_SIZE zeros.
C14_Witness ==
    /\ ZeroWindow
    /\ variant = "main"
    /\ Len(samples) = FFT_SIZE
    /\ pc = "a_done"
    /\ version = 1
    /\ reference = Epsilon

\* C19: when the transform is about to run, entry i of fft_input has real
\* part samples[i] for every i below min(samples.len(), FFT_SIZE), real part 0
\* from samples.len() on, and imaginary part 0, for every input length.
C19_InputFullyOverwritten ==
    pc = "a_fft" =>
        \A i \in 1..FFT_SIZE :
            /\ fft_input[i].im = 0
            /\ fft_input[i].re = (IF i <= Len(samples) THEN samples[i] ELSE 0)

----------------------------------------------------------------------------
\* Claims about the packets of the capture loop (checked under SpecCapture)

\* C15: when an iteration without acquisition error reaches its sleep, every
\* packet that was waiting when it called GetNextPacketSize has been released.
C15_AllAvailablePacketsProcessed ==
    (pc = "sleep" /\ ~iter.err) => iter.released = iter.seen

\* C16: a packet flagged silent causes no write, and a packet not flagged
\* silent has caused a write by the time the loop is done analysing it.
C16_OneWritePerAudiblePacket ==
    /\ (held = "silent" => (~iter.wrote /\ pc \notin WritePcs))
    /\ ((held \in {"audio", "nan"} /\ pc # "fill") => iter.wrote)

\* C17: the window handed to run_fft for a packet holds samples of that packet
\* and zeros, never a sample of an earlier packet.
C17_WindowHoldsOnlyThisPacket ==
    pc \in WritePcs =>
        \A i \in 1..FFT_SIZE : samples[i].pkt \in {0, HeldPacket}

\* C18: entry i (from 0) of the window handed to run_fft for a packet comes
\* from frame i of the packet and from its first channel.
C18_WindowIsSingleChannel ==
    pc \in WritePcs =>
        \A i \in 1..FFT_SIZE :
            samples[i].pkt = HeldPacket =>
                (samples[i].frame = i - 1 /\ samples[i].ch = 0)

\* C20: a read that was called after k writes had returned gives back the
\* spectrum of the k-th write or of a later one.
C20_ReadIsFresh ==
    \A r \in Readers :
        rpc[r] = "r_ret" => Tag(rbuf[r]) >= rstart[r]

\* C20 witness: the renderer called read after the first write had returned
\* and got the spectrum of a later write.
C20_Witness ==
    /\ rpc[Renderer] = "r_ret"
    /\ rstart[Renderer] = 1
    /\ Tag(rbuf[Renderer]) > 1

----------------------------------------------------------------------------
\* Further claims about the SharedPipe

\* C21: the vector a read returns to the renderer never comes from an older
\* write than the vector its previous read returned.
C21_MonotonicReads ==
    rpc[Renderer] \in ReadReturned => Tag(rbuf[Renderer]) >= lastRead

\* C21 witness: the renderer's read loaded current before a write flipped it,
\* returns that slot's spectrum although a newer one is published, and the
\* renderer's previous read had returned a published spectrum.
C21_Witness ==
    /\ rpc[Renderer] = "r_ret"
    /\ lastRead > 0
    /\ ridx[Renderer] # current
    /\ Tag(rbuf[Renderer]) < version

\* C22: whenever no call of write is in progress, version is the number of
\* writes that have succeeded, current is that number modulo 2 and the slot
\* current selects holds the argument of the last write that succeeded (the
\* zeros of new() if none has); the writes that succeeded are the first nRet
\* calls, so that argument is wargs[nRet].
C22_QuiescentState ==
    /\ pc = "w_unlock" => Len(wargs) = nRet + 1
    /\ pc \notin WritePcs =>
          /\ version = nRet
          /\ current = nRet % 2
          /\ slots[current] = IF nRet = 0 THEN Zeros ELSE wargs[nRet]

\* C22 witness: two writes have succeeded, a third has panicked on a short
\* slice, and no write is in progress.
C22_Witness ==
    /\ pc = "panicked"
    /\ nRet = 2
    /\ Len(wargs) = 3

\* C23: the version read_with_tracking returns is at least the sequence number
\* of the write whose spectrum it returns with it.
C23_TrackedVersionNotOlder ==
    \A r \in Readers :
        rpc[r] = "rwt_ret" => trackVer[r] >= Tag(rbuf[r])

\* C23 witness: read_with_tracking returns a published spectrum together with
\* the version of a later write.
C23_Witness ==
    /\ rpc[Poller] = "rwt_ret"
    /\ Tag(rbuf[Poller]) > 0
    /\ trackVer[Poller] > Tag(rbuf[Poller])

----------------------------------------------------------------------------
\* Claims about run_fft of dsp/fft.rs beside the readers (checked under SpecRun)

\* a thread is inside a call
ProducerInCall == tpc[Producer] \notin {"idle", "panicked"}
ConsumerInCall(r) == rpc[r] # "idle"

\* C24: run_fft holds the guards of both caches during its whole call of
\* write, and no thread waits forever: under fair scheduling every call of
\* read, read_if_new and read_with_tracking eventually returns, and every call
\* of run_fft eventually returns or ends in the panic of its analysis.
C24_EveryCallEnds ==
    /\ [](pc \in WritePcs => (cacheLock = Producer /\ gainsLock = Producer))
    /\ \A r \in Readers : ConsumerInCall(r) ~> ~ConsumerInCall(r)
    /\ ProducerInCall ~> ~ProducerInCall

\* C24 witness: the first call of run_fft has initialized the caches; the
\* second is waiting, with the guards of both caches held, for the mutex of
\* the slot a reader with a stale idx is cloning, while the other reader is
\* inside read_if_new.
C24_Witness ==
    /\ calls[Producer] = 2
    /\ Len(cache) = BANDS
    /\ cacheLock = Producer
    /\ gainsLock = Producer
    /\ pc = "w_lock"
    /\ lock[widx] = {Renderer}
    /\ rop[Poller] = "rin"

====
